---- MODULE Spec2Model ----
(***************************************************************************)
(* Model of sources/manager_file.py: FileManager, the localization store   *)
(* (load_localization, t) and the file helpers (write_file, cache_binary). *)
(*                                                                         *)
(* Strings that the code splits or prefix-tests (locale codes, file names) *)
(* are sequences of characters / path components, so that split,           *)
(* startswith and join are computed as the code computes them.             *)
(***************************************************************************)
EXTENDS Integers, Sequences, FiniteSets, TLC

VARIABLES
    _LOCALIZATION,     \* FileManager._LOCALIZATION: the active table, key -> string
    translation_json,  \* the document at TRANSLATION_FILE_PATH
    last_load,         \* the last load_localization call since the document last changed
    t_call,            \* the last t call since the last load / document change
    files,             \* the file system seen by write_file / cache_binary: path -> content
    cache_call,        \* the last write_file / cache_binary call and its outcome
    prev_call          \* the call made just before it (its arguments and whether it raised)

vars == <<_LOCALIZATION, translation_json, last_load, t_call, files, cache_call, prev_call>>

locVars == <<_LOCALIZATION, translation_json, last_load, t_call>>
fileVars == <<files, cache_call, prev_call>>

---------------------------------------------------------------------------
(* Bounds and input sets *)

\* most entries a translation.json catalog holds
MaxCatalog == 3

en == <<"e", "n">>
en_GB == <<"e", "n", "_", "G", "B">>
en_US == <<"e", "n", "_", "U", "S">>
eng == <<"e", "n", "g">>
fr == <<"f", "r">>

\* locale codes that occur as keys of translation.json
CatalogCodes == {en, en_GB, en_US, eng}
\* locale codes passed to load_localization
LocaleNames == {en, en_GB, en_US, eng, fr}

TranslationKeys == {"hello", "bye"}
\* keys passed to t
LookupKeys == TranslationKeys \cup {"unknown"}
Strings == {"Hi", "Hiya"}

EmptyDict == [k \in {} |-> ""]

\* per-locale tables of translation.json: no entry, or one key -> string
Tables == {EmptyDict} \cup {[k \in {key} |-> s] : key \in TranslationKeys, s \in Strings}

NoCall == [op |-> "none"]

---------------------------------------------------------------------------
(* Python primitives used by load_localization *)

\* mutant of split: the separator is never found
split_none(s) == <<s>>

\* str.split('_'): the parts between the separators
RECURSIVE split(_)
split(s) ==
    IF \E i \in 1..Len(s) : s[i] = "_"
    THEN LET i == CHOOSE i \in 1..Len(s) :
                      s[i] = "_" /\ \A j \in 1..(i - 1) : s[j] # "_"
         IN  <<SubSeq(s, 1, i - 1)>> \o split(SubSeq(s, i + 1, Len(s)))
    ELSE <<s>>

\* str.startswith
startswith(s, prefix) ==
    /\ Len(prefix) <= Len(s)
    /\ SubSeq(s, 1, Len(prefix)) = prefix

\* mutant of regional_prefix: the separator is left out
regional_prefix_no_separator(base_language) == base_language

\* f"{base_language}_"
regional_prefix(base_language) == base_language \o <<"_">>

\* mutant of update: keys already present keep their value
update_keep_existing(d, other) ==
    [k \in DOMAIN d \cup DOMAIN other |-> IF k \in DOMAIN d THEN d[k] ELSE other[k]]

\* dict.update: entries of other are added, overriding on key collision
update(d, other) ==
    [k \in DOMAIN d \cup DOMAIN other |-> IF k \in DOMAIN other THEN other[k] ELSE d[k]]

\* mutant of get: a miss yields the empty string
get_empty_on_miss(d, key, default) == IF key \in DOMAIN d THEN d[key] ELSE ""

\* dict.get(key, default)
get(d, key, default) == IF key \in DOMAIN d THEN d[key] ELSE default

\* `code in all_translations` on the parsed JSON object (an ordered dict)
contains(all_translations, code) ==
    \E i \in 1..Len(all_translations) : all_translations[i].code = code

\* all_translations[code]
getitem(all_translations, code) ==
    all_translations[CHOOSE i \in 1..Len(all_translations) :
                         all_translations[i].code = code].table

---------------------------------------------------------------------------
(* load_localization, lines 48-71 *)

\* mutant of merge_regional_variants: the catalog is scanned last entry first
RECURSIVE merge_regional_variants_reversed(_, _, _)
merge_regional_variants_reversed(current_translations, all_translations, base_language) ==
    IF all_translations = <<>>
    THEN current_translations
    ELSE LET n == Len(all_translations)
             key == all_translations[n].code
             value == all_translations[n].table
             merged == IF startswith(key, regional_prefix(base_language))
                          /\ key # base_language
                       THEN update(current_translations, value)
                       ELSE current_translations
         IN  merge_regional_variants_reversed(
                 merged, SubSeq(all_translations, 1, n - 1), base_language)

\* the loop of lines 67-69: for key, value in all_translations.items()
RECURSIVE merge_regional_variants(_, _, _)
merge_regional_variants(current_translations, all_translations, base_language) ==
    IF all_translations = <<>>
    THEN current_translations
    ELSE LET key == Head(all_translations).code
             value == Head(all_translations).table
             merged == IF startswith(key, regional_prefix(base_language))
                          /\ key # base_language
                       THEN update(current_translations, value)
                       ELSE current_translations
         IN  merge_regional_variants(merged, Tail(all_translations), base_language)

\* mutant of only_base_requested: the scan also runs for a regional request
only_base_requested_always(locale_name, base_language) == TRUE

\* the condition of line 63
only_base_requested(locale_name, base_language) == locale_name = base_language

\* the condition of line 61
regional_requested(locale_name, base_language, all_translations) ==
    locale_name # base_language /\ contains(all_translations, locale_name)

\* lines 49-69: the table built from the parsed catalog for locale_name
current_translations(all_translations, locale_name) ==
    LET base_language == split(locale_name)[1]
        base == IF contains(all_translations, base_language)
                THEN update(EmptyDict, getitem(all_translations, base_language))
                ELSE EmptyDict
    IN  IF regional_requested(locale_name, base_language, all_translations)
        THEN update(base, getitem(all_translations, locale_name))
        ELSE IF only_base_requested(locale_name, base_language)
             THEN merge_regional_variants(base, all_translations, base_language)
             ELSE base

\* FileManager.load_localization(locale_name).  A missing file is caught
\* (lines 39-42).  An undecodable file makes json.load raise JSONDecodeError;
\* the handler of line 43 names load_json.JSONDecodeError, an attribute the
\* function json.load does not have, so matching it raises AttributeError,
\* which leaves load_localization with _LOCALIZATION untouched.
load_localization(locale_name) ==
    /\ CASE translation_json.kind = "absent" ->
              /\ _LOCALIZATION' = EmptyDict
              /\ last_load' = [op |-> "load", locale_name |-> locale_name, raised |-> FALSE]
         [] translation_json.kind = "malformed" ->
              /\ _LOCALIZATION' = _LOCALIZATION
              /\ last_load' = [op |-> "load", locale_name |-> locale_name, raised |-> TRUE]
         [] translation_json.kind = "json" ->
              /\ _LOCALIZATION' = current_translations(translation_json.catalog, locale_name)
              /\ last_load' = [op |-> "load", locale_name |-> locale_name, raised |-> FALSE]
    /\ t_call' = NoCall
    /\ UNCHANGED <<translation_json, fileVars>>

\* FileManager.t(key)
t(key) ==
    /\ t_call' = [op |-> "t", key |-> key, result |-> get(_LOCALIZATION, key, key)]
    /\ UNCHANGED <<_LOCALIZATION, translation_json, last_load, fileVars>>

---------------------------------------------------------------------------
(* The translation document, read afresh by every load (lines 37-38), is   *)
(* owned by the environment: it can be removed, corrupted or extended.     *)

RemoveTranslationFile ==
    /\ translation_json.kind # "absent"
    /\ translation_json' = [kind |-> "absent", catalog |-> <<>>]
    /\ last_load' = NoCall
    /\ t_call' = NoCall
    /\ UNCHANGED <<_LOCALIZATION, fileVars>>

CorruptTranslationFile ==
    /\ translation_json.kind # "malformed"
    /\ translation_json' = [kind |-> "malformed", catalog |-> <<>>]
    /\ last_load' = NoCall
    /\ t_call' = NoCall
    /\ UNCHANGED <<_LOCALIZATION, fileVars>>

\* a locale entry is appended to the JSON object (a fresh object if there was none)
AddTranslationEntry(code, table) ==
    /\ Len(translation_json.catalog) < MaxCatalog
    /\ ~contains(translation_json.catalog, code)
    /\ translation_json' =
           [kind |-> "json",
            catalog |-> Append(translation_json.catalog, [code |-> code, table |-> table])]
    /\ last_load' = NoCall
    /\ t_call' = NoCall
    /\ UNCHANGED <<_LOCALIZATION, fileVars>>

---------------------------------------------------------------------------
(* write_file and cache_binary, lines 84-120 *)

\* most chunks a file holds (appends stop there)
MaxFileLen == 2

\* FileManager.ASSETS_DIR
ASSETS_DIR == "assets"

\* file names are relative paths, sequences of components
FileNames == {<<"out">>, <<"assets", "out">>}
\* text passed to write_file
Texts == {"", "x"}
\* the default of cache_binary's content parameter: "content omitted"
None == "None"
\* values pickle serializes
Picklable == {"v1", "v2"}
\* a value pickle refuses (a lambda, an open file)
Unpicklable == {"lambda"}
Contents == {None} \cup Picklable \cup Unpicklable

NoFiles == [p \in {} |-> <<>>]

\* os.path.join(dir, name) for a relative name
join(dir, name) == <<dir>> \o name

\* line 94 / line 108
target(name, assets) == IF assets THEN join(ASSETS_DIR, name) ELSE name

\* mutant of isfile: the existence test always succeeds
isfile_always(fs, path) == TRUE

\* os.path.isfile
isfile(fs, path) == path \in DOMAIN fs

\* mutant of opened: "w"/"wb" does not truncate
opened_keep(fs, path, append) == IF path \in DOMAIN fs THEN fs[path] ELSE <<>>

\* what open(path, "a" | "w" | "wb") leaves in the file before anything is written
opened(fs, path, append) == IF append /\ path \in DOMAIN fs THEN fs[path] ELSE <<>>

\* content.encode("utf-8") as written by file.write: nothing for the empty string
encode(content) == IF content = "" THEN <<>> ELSE <<<<"text", content>>>>

\* pickle.dump(content, file): the bytes written, or PicklingError with nothing written
dump_pickle(content) ==
    IF content \in Unpicklable
    THEN [raised |-> TRUE, bytes |-> <<>>]
    ELSE [raised |-> FALSE, bytes |-> <<<<"pickle", content>>>>]

\* pickle.load(file): reads one pickle from the start of the file and ignores what
\* follows its STOP opcode; EOFError on an empty file, UnpicklingError on text
load_pickle(bytes) ==
    IF bytes # <<>> /\ Head(bytes)[1] = "pickle"
    THEN [raised |-> FALSE, value |-> Head(bytes)[2]]
    ELSE [raised |-> TRUE, value |-> None]

\* with p \in DOMAIN fs replaced or added
store(fs, path, bytes) ==
    [p \in DOMAIN fs \cup {path} |-> IF p = path THEN bytes ELSE fs[p]]

\* the arguments of a call, kept as the preceding call
arguments(call) ==
    IF call.op = "none" THEN NoCall
    ELSE [op |-> call.op, name |-> call.name, assets |-> call.assets,
          content |-> call.content, raised |-> call.raised]

\* FileManager.write_file(name, content, append, assets)
write_file(name, content, append, assets) ==
    LET path == target(name, assets)
        bytes == opened(files, path, append) \o encode(content)
    IN  /\ Len(bytes) <= MaxFileLen
        /\ files' = store(files, path, bytes)
        /\ cache_call' = [op |-> "write_file", name |-> name, assets |-> assets,
                          content |-> content, result |-> None, raised |-> FALSE]
        /\ prev_call' = arguments(cache_call)
        /\ UNCHANGED locVars

\* FileManager.cache_binary(name, content, assets)
cache_binary(name, content, assets) ==
    LET path == target(name, assets)
        call(result, raised) ==
            [op |-> "cache_binary", name |-> name, assets |-> assets,
             content |-> content, result |-> result, raised |-> raised]
    IN  /\ prev_call' = arguments(cache_call)
        /\ UNCHANGED locVars
        /\ IF content = None /\ ~isfile(files, path)
           THEN \* line 110
                /\ cache_call' = call(None, FALSE)
                /\ files' = files
           ELSE IF content = None
           THEN \* open(name, "rb"), lines 114-117
                IF path \notin DOMAIN files
                THEN /\ cache_call' = call(None, TRUE)
                     /\ files' = files
                ELSE LET loaded == load_pickle(files[path])
                     IN  /\ cache_call' = call(IF loaded.raised THEN None ELSE loaded.value,
                                               FALSE)
                         /\ files' = files
           ELSE \* open(name, "wb"), lines 119-120
                LET dumped == dump_pickle(content)
                IN  /\ files' = store(files, path, opened(files, path, FALSE) \o dumped.bytes)
                    /\ cache_call' = call(None, dumped.raised)

---------------------------------------------------------------------------

Init ==
    /\ _LOCALIZATION = EmptyDict
    /\ translation_json = [kind |-> "absent", catalog |-> <<>>]
    /\ last_load = NoCall
    /\ t_call = NoCall
    /\ files = NoFiles
    /\ cache_call = NoCall
    /\ prev_call = NoCall

Next ==
    \/ \E locale_name \in LocaleNames : load_localization(locale_name)
    \/ \E key \in LookupKeys : t(key)
    \/ RemoveTranslationFile
    \/ CorruptTranslationFile
    \/ \E code \in CatalogCodes, table \in Tables : AddTranslationEntry(code, table)

Spec == Init /\ [][Next]_vars

NextCache ==
    \/ \E name \in FileNames, content \in Texts, append \in BOOLEAN, assets \in BOOLEAN :
           write_file(name, content, append, assets)
    \/ \E name \in FileNames, content \in Contents, assets \in BOOLEAN :
           cache_binary(name, content, assets)

SpecCache == Init /\ [][NextCache]_vars

---------------------------------------------------------------------------
(* Vocabulary of the properties: the catalog and the locale of the last    *)
(* load, read off the state and stated independently of the operators      *)
(* that model the code.                                                    *)

Catalog == translation_json.catalog

\* a load that read a decodable document and returned
LoadedCatalog ==
    last_load.op = "load" /\ ~last_load.raised /\ translation_json.kind = "json"

\* the language part of a locale code: what precedes its first "_"
BaseOf(L) ==
    LET seps == {i \in 1..Len(L) : L[i] = "_"}
    IN  IF seps = {} THEN L
        ELSE SubSeq(L, 1, (CHOOSE i \in seps : \A j \in seps : i <= j) - 1)

\* code is B followed by "_" and a region
IsVariantOf(code, B) ==
    /\ Len(code) > Len(B)
    /\ \A i \in 1..Len(B) : code[i] = B[i]
    /\ code[Len(B) + 1] = "_"

InCatalog(code) == \E i \in DOMAIN Catalog : Catalog[i].code = code

TableAt(code) == Catalog[CHOOSE i \in DOMAIN Catalog : Catalog[i].code = code].table

\* keys of the base-language table of L (none if the catalog lacks it)
BaseKeys(L) == IF InCatalog(BaseOf(L)) THEN DOMAIN TableAt(BaseOf(L)) ELSE {}

\* positions of the regional tables that apply to a load of L
Applicable(L) ==
    {i \in DOMAIN Catalog :
        IF L # BaseOf(L) THEN Catalog[i].code = L ELSE IsVariantOf(Catalog[i].code, L)}

\* those of the positions S whose table defines k
Defining(S, k) == {i \in S : k \in DOMAIN Catalog[i].table}

Last(S) == CHOOSE i \in S : \A j \in S : j <= i

IsT == t_call.op = "t"

---------------------------------------------------------------------------
(* C1 *)

\* C1 as stated: after load(L), t(k) is C[base(L)][k] when k is defined in the
\* base table and in no applicable regional table, and C[L][k] whenever L is a
\* catalog key and C[L] defines k, also when L is a base language and a
\* regional variant of it defines k too.
C1_AsStated ==
    (LoadedCatalog /\ IsT) =>
        LET L == last_load.locale_name
            k == t_call.key
        IN  /\ (k \in BaseKeys(L) /\ Defining(Applicable(L), k) = {})
                   => t_call.result = TableAt(BaseOf(L))[k]
            /\ (InCatalog(L) /\ k \in DOMAIN TableAt(L))
                   => t_call.result = TableAt(L)[k]

\* C1 amended: after load(L), t(k) is C[base(L)][k] when k is defined in the
\* base table and in no applicable regional table, and C[L][k] when L is a
\* catalog key and C[L] defines k, unless L is a base language and a regional
\* variant of it defines k.
C1_LoadThenTranslate ==
    (LoadedCatalog /\ IsT) =>
        LET L == last_load.locale_name
            k == t_call.key
        IN  /\ (k \in BaseKeys(L) /\ Defining(Applicable(L), k) = {})
                   => t_call.result = TableAt(BaseOf(L))[k]
            /\ (/\ InCatalog(L)
                /\ k \in DOMAIN TableAt(L)
                /\ ~(L = BaseOf(L) /\ Defining(Applicable(L), k) # {}))
                   => t_call.result = TableAt(L)[k]

\* a regional load whose table overrides the base table's value of the key looked up
C1_Witness ==
    /\ LoadedCatalog /\ IsT
    /\ last_load.locale_name = en_GB
    /\ InCatalog(en) /\ InCatalog(en_GB)
    /\ t_call.key \in DOMAIN TableAt(en) \cap DOMAIN TableAt(en_GB)
    /\ TableAt(en)[t_call.key] # TableAt(en_GB)[t_call.key]
    /\ t_call.result = TableAt(en_GB)[t_call.key]

---------------------------------------------------------------------------
(* C2 *)

\* C2: when the document is absent or malformed, load returns without raising
\* and leaves the active table empty, so every t(k) gives k.
C2_FailedLoadEmptiesTable ==
    (last_load.op = "load" /\ translation_json.kind \in {"absent", "malformed"}) =>
        /\ ~last_load.raised
        /\ _LOCALIZATION = EmptyDict
        /\ IsT => t_call.result = t_call.key

---------------------------------------------------------------------------
(* C3 *)

\* C3: in every state t(k) returns the active table's value for k if k is one
\* of its keys and k itself otherwise, and a call of t leaves the active table
\* as it was.
C3_TranslateIsLookup ==
    /\ [](IsT => t_call.result = IF t_call.key \in DOMAIN _LOCALIZATION
                                 THEN _LOCALIZATION[t_call.key]
                                 ELSE t_call.key)
    /\ [][t_call'.op = "t" => _LOCALIZATION' = _LOCALIZATION]_vars

\* a miss and a hit on a table that outlived a load that raised
C3_Witness ==
    /\ IsT
    /\ last_load.op = "load" /\ last_load.raised
    /\ _LOCALIZATION # EmptyDict
    /\ t_call.key \notin DOMAIN _LOCALIZATION
    /\ t_call.result = t_call.key

---------------------------------------------------------------------------
(* C4 *)

\* C4: after a successful load(L) the keys of the active table are exactly
\* those of the base table and of the applicable regional tables, and a key
\* defined by the base table and by an applicable regional table has a
\* regional value.
C4_UnionRegionalWins ==
    LoadedCatalog =>
        LET L == last_load.locale_name
            A == Applicable(L)
        IN  /\ DOMAIN _LOCALIZATION
                   = BaseKeys(L) \cup UNION {DOMAIN Catalog[i].table : i \in A}
            /\ \A k \in BaseKeys(L) :
                   Defining(A, k) # {}
                       => _LOCALIZATION[k] \in {Catalog[i].table[k] : i \in Defining(A, k)}

\* load("en") with a regional variant that redefines a key of the base table
C4_Witness ==
    /\ LoadedCatalog
    /\ last_load.locale_name = en
    /\ InCatalog(en)
    /\ \E k \in DOMAIN TableAt(en) : \E i \in Defining(Applicable(en), k) :
           /\ Catalog[i].table[k] # TableAt(en)[k]
           /\ _LOCALIZATION[k] = Catalog[i].table[k]
    /\ Cardinality(DOMAIN _LOCALIZATION) = 2

---------------------------------------------------------------------------
(* C5 *)

\* C5 as stated: if L is not a catalog key and no catalog key is a regional
\* variant of base(L), the active table after load(L) is empty and t(k) = k.
C5_AsStated ==
    LET L == last_load.locale_name
    IN  (/\ LoadedCatalog
         /\ ~InCatalog(L)
         /\ \A i \in DOMAIN Catalog : ~IsVariantOf(Catalog[i].code, BaseOf(L)))
            => /\ _LOCALIZATION = EmptyDict
               /\ IsT => t_call.result = t_call.key

\* C5 amended: if neither L nor base(L) is a catalog key and no catalog key is
\* a regional variant of base(L), the active table after load(L) is empty and
\* t(k) = k.
C5_AbsentLocaleEmpty ==
    LET L == last_load.locale_name
    IN  (/\ LoadedCatalog
         /\ ~InCatalog(L)
         /\ ~InCatalog(BaseOf(L))
         /\ \A i \in DOMAIN Catalog : ~IsVariantOf(Catalog[i].code, BaseOf(L)))
            => /\ _LOCALIZATION = EmptyDict
               /\ IsT => t_call.result = t_call.key

\* load("fr") on a catalog holding en and en_GB entries, then a lookup of one of their keys
C5_Witness ==
    /\ LoadedCatalog /\ IsT
    /\ last_load.locale_name = fr
    /\ InCatalog(en) /\ InCatalog(en_GB)
    /\ t_call.key \in DOMAIN TableAt(en) \cap DOMAIN TableAt(en_GB)
    /\ _LOCALIZATION = EmptyDict
    /\ t_call.result = t_call.key

---------------------------------------------------------------------------
(* C8 *)

\* C8: after a load the active table holds nothing of an earlier load: each of
\* its entries is an entry of the base table or of an applicable regional
\* table of the catalog that load read (no entry at all when the document was
\* absent or malformed).
C8_RebuiltWholesale ==
    last_load.op = "load" =>
        LET L == last_load.locale_name
            from == Applicable(L) \cup {i \in DOMAIN Catalog : Catalog[i].code = BaseOf(L)}
        IN  \A k \in DOMAIN _LOCALIZATION :
                \E i \in Defining(from, k) : Catalog[i].table[k] = _LOCALIZATION[k]

---------------------------------------------------------------------------
(* C9 *)

\* C9: after load(B) for a base language B, a key defined by regional variants
\* of B has the value of the last of them in catalog order, wherever B's own
\* entry sits, and an entry whose code continues B without the "_" separator
\* contributes nothing.
C9_LastVariantWins ==
    LET B == last_load.locale_name
    IN  (LoadedCatalog /\ B = BaseOf(B)) =>
            /\ \A k \in TranslationKeys :
                   LET S == Defining(Applicable(B), k)
                   IN  /\ S # {} => /\ k \in DOMAIN _LOCALIZATION
                                    /\ _LOCALIZATION[k] = Catalog[Last(S)].table[k]
                       /\ (S = {} /\ k \notin BaseKeys(B)) => k \notin DOMAIN _LOCALIZATION
            /\ (IsT /\ Defining(Applicable(B), t_call.key) # {})
                   => t_call.result
                          = Catalog[Last(Defining(Applicable(B), t_call.key))].table[t_call.key]

\* load("en") on the catalog en_GB, en_US, en (in that order) whose three
\* tables define the key looked up, the two variants differently
C9_Witness ==
    /\ LoadedCatalog /\ IsT
    /\ last_load.locale_name = en
    /\ Len(Catalog) = 3
    /\ Catalog[1].code = en_GB /\ Catalog[2].code = en_US /\ Catalog[3].code = en
    /\ \A i \in 1..3 : t_call.key \in DOMAIN Catalog[i].table
    /\ Catalog[1].table[t_call.key] # Catalog[2].table[t_call.key]
    /\ Catalog[3].table[t_call.key] # Catalog[2].table[t_call.key]
    /\ t_call.result = Catalog[2].table[t_call.key]

---------------------------------------------------------------------------
(* C10 *)

\* C10: after load(L) for a regional code L that is not a catalog key, the
\* active table is exactly the base-language table (empty if the catalog lacks
\* it): sibling variants are not merged.
C10_UnknownRegionBaseOnly ==
    LET L == last_load.locale_name
    IN  (LoadedCatalog /\ L # BaseOf(L) /\ ~InCatalog(L)) =>
            _LOCALIZATION = IF InCatalog(BaseOf(L)) THEN TableAt(BaseOf(L)) ELSE EmptyDict

\* load("en_US") on a catalog with en and en_GB but no en_US: en_GB's key is not merged
C10_Witness ==
    /\ LoadedCatalog
    /\ last_load.locale_name = en_US
    /\ ~InCatalog(en_US) /\ InCatalog(en) /\ InCatalog(en_GB)
    /\ _LOCALIZATION = TableAt(en)
    /\ \E k \in DOMAIN TableAt(en_GB) : k \notin DOMAIN _LOCALIZATION

---------------------------------------------------------------------------
(* Vocabulary of the cache properties *)

\* the path a call addressed
PathOf(call) == IF call.assets THEN <<"assets">> \o call.name ELSE call.name

\* a cache_binary call with content omitted
IsRead(call) == call.op = "cache_binary" /\ call.content = "None"

\* the call before the last one was cache_binary(name, v, assets) on the last
\* call's name and flag, and returned
AfterCacheOf(v) ==
    /\ prev_call.op = "cache_binary"
    /\ prev_call.name = cache_call.name
    /\ prev_call.assets = cache_call.assets
    /\ prev_call.content = v
    /\ ~prev_call.raised

\* bytes that do not start with a pickle
Undecodable(bytes) == bytes = <<>> \/ bytes[1][1] # "pickle"

---------------------------------------------------------------------------
(* C6 *)

\* C6 as stated: cache_binary(name) called right after cache_binary(name, v)
\* with the same assets flag returns v, for every v, the value None included.
C6_AsStated ==
    \A v \in Contents :
        (IsRead(cache_call) /\ AfterCacheOf(v)) =>
            /\ ~cache_call.raised
            /\ cache_call.result = v

\* C6 amended: cache_binary(name) called right after a cache_binary(name, v)
\* that returned, with the same assets flag, returns v, for every v other
\* than None, whatever the path held before.
C6_RoundTrip ==
    \A v \in Contents \ {"None"} :
        (IsRead(cache_call) /\ AfterCacheOf(v)) =>
            /\ ~cache_call.raised
            /\ cache_call.result = v

\* a value stored under the assets directory and read back, while another file holds text
C6_Witness ==
    /\ IsRead(cache_call)
    /\ AfterCacheOf("v2")
    /\ cache_call.result = "v2"
    /\ cache_call.assets
    /\ \E other \in DOMAIN files :
           other # PathOf(cache_call) /\ files[other] # <<>> /\ files[other][1][1] = "text"

---------------------------------------------------------------------------
(* C7 *)

\* C7: a cache_binary read never raises, returns None when the path was never
\* written or does not hold a decodable pickle, and leaves every file as it
\* was.
C7_ReadMissIsNone ==
    /\ [](IsRead(cache_call) =>
              /\ ~cache_call.raised
              /\ (\/ PathOf(cache_call) \notin DOMAIN files
                  \/ Undecodable(files[PathOf(cache_call)]))
                     => cache_call.result = "None")
    /\ [][IsRead(cache_call') => files' = files]_vars

\* a read of a file that holds text, while another path was never written
C7_Witness ==
    /\ IsRead(cache_call)
    /\ PathOf(cache_call) \in DOMAIN files
    /\ Undecodable(files[PathOf(cache_call)])
    /\ files[PathOf(cache_call)] # <<>>
    /\ <<"out">> \notin DOMAIN files
    /\ cache_call.result = "None"
    /\ ~cache_call.raised

====
